---- MODULE Spec2Model ----
(***************************************************************************)
(* Similarity-and-gain statistics engine of the Politicians repository.    *)
(*                                                                         *)
(* The model covers src/src/network_analyzer/similarity_algos.py (the four *)
(* pairwise similarity functions) and                                      *)
(* src/src/network_analyzer/similarity_statistics.py (partitioning,        *)
(* per-node average similarity, the similarity table and the gains), the   *)
(* node file written by the two per-graph runners (__main__.py and         *)
(* run_statistics.py) and the threaded batch runner of __main__.py.        *)
(*                                                                         *)
(* Numbers.  Python floats are modelled by exact rationals <<num, den>>    *)
(* in lowest terms with den > 0.  1 / log(d) is irrational; it is modelled *)
(* by the fixed-point table InvLog (hundredths).  A missing float (NaN) is *)
(* the pair <<0, 0>>.                                                      *)
(*                                                                         *)
(* Graphs.  A networkx.Graph is the node set 1..n, a function `edges` from *)
(* edge keys ({u, v}, or {u} for a self-loop) to the edge's weight, and    *)
(* the node attribute dictionaries (`attrs` for the features, `wlog` for   *)
(* the "1_over_weight_log" entry that add_weight_log writes).  A subgraph  *)
(* view g.subgraph(S) is the node set S over the same edges and the SAME   *)
(* node attribute dictionaries, as in networkx.                            *)
(***************************************************************************)
EXTENDS Integers, Sequences, FiniteSets, TLC

VARIABLES
    n,          \* the graph has the nodes 1..n
    edges,      \* edge key -> weight
    attrs,      \* node -> feature -> attribute value (NoAttr when the key is absent)
    wlog,       \* node -> value of the node attribute "1_over_weight_log" (NoKey when absent)
    kind,       \* the class of the graph object: Graph, DiGraph or MultiGraph
    features,   \* the target_features list handed to the constructor
    sim,        \* outcome of the last call of a SimilarityStatistics method
    agg,        \* outcome of the SimilarityAndGainsStatistics construction
    batch       \* the batch runner: main thread, semaphore and worker threads

vars == <<n, edges, attrs, wlog, kind, features, sim, agg, batch>>

(***************************************************************************)
(* Bounds of the model.                                                    *)
(***************************************************************************)
MaxNodes == 3
MaxEdges == 3
\* nodes of the graphs handed to the SimilarityAndGainsStatistics constructor
MaxAggNodes == MaxNodes + 1

\* Edge weights of the input graphs: a zero weight, the unit weight, a larger count.
Weights == {0, 1, 2}
\* Weight carried by a self-loop of the input graphs.
LoopWeights == {1}

(***************************************************************************)
(* Rational arithmetic (the model of float arithmetic).                    *)
(***************************************************************************)
RECURSIVE Gcd(_, _)
Gcd(a, b) == IF b = 0 THEN a ELSE Gcd(b, a % b)

Abs(x) == IF x < 0 THEN -x ELSE x

NaNF == <<0, 0>>
IsNaN(r) == r[2] = 0

Norm(num, den) ==
    IF den = 0 THEN NaNF
    ELSE LET g == Gcd(Abs(num), Abs(den))
             s == IF den < 0 THEN -1 ELSE 1
         IN  <<(s * num) \div g, (s * den) \div g>>

Rat(k) == <<k, 1>>
Zero == Rat(0)
One == Rat(1)

RAdd(a, b) == IF IsNaN(a) \/ IsNaN(b) THEN NaNF
              ELSE Norm(a[1] * b[2] + b[1] * a[2], a[2] * b[2])
RSub(a, b) == IF IsNaN(a) \/ IsNaN(b) THEN NaNF
              ELSE Norm(a[1] * b[2] - b[1] * a[2], a[2] * b[2])
RAbs(a) == IF IsNaN(a) THEN NaNF ELSE <<Abs(a[1]), a[2]>>
\* a / b for b # 0 (the callers test b = 0 themselves where Python would raise)
RDiv(a, b) == IF IsNaN(a) \/ IsNaN(b) THEN NaNF
              ELSE Norm(a[1] * b[2], a[2] * b[1])
RPos(a) == ~IsNaN(a) /\ a[1] > 0

RECURSIVE RSum(_, _)
\* sum(f[x] for x in S), 0 for the empty set
RSum(S, f) ==
    IF S = {} THEN Zero
    ELSE LET x == CHOOSE y \in S : TRUE
         IN  RAdd(f[x], RSum(S \ {x}, f))

RECURSIVE ISum(_, _)
ISum(S, f) ==
    IF S = {} THEN 0
    ELSE LET x == CHOOSE y \in S : TRUE
         IN  f[x] + ISum(S \ {x}, f)

\* 1 / log(d) for d >= 2, in hundredths (1/ln 2 = 1.4427, 1/ln 3 = 0.9102, ...)
InvLogTable ==
    <<0, 144, 91, 72, 62, 56, 51, 48, 46, 43, 42, 40, 39, 38, 37, 36>>
InvLog(d) == IF d <= Len(InvLogTable) THEN Norm(InvLogTable[d], 100)
             ELSE Norm(35, 100)

(***************************************************************************)
(* networkx.Graph and its subgraph views.                                  *)
(***************************************************************************)
NodeSet == 1..n

EdgeKey(u, v) == {u, v}

\* G.has_edge(u, v) in the view on the node set S
HasEdge(S, u, v) == u \in S /\ v \in S /\ EdgeKey(u, v) \in DOMAIN edges

\* set(G[u]) in the view on S: the neighbours of u, u itself when it has a self-loop
Neighbors(S, u) == {v \in S : HasEdge(S, u, v)}

\* G[u][w]["weight"]
EdgeWeight(u, w) == edges[EdgeKey(u, w)]

\* (mutation of NumberOfEdges: the edges of the whole graph are counted, not
\* those of the view)
NumberOfEdgesOfGraph(S) == Cardinality(DOMAIN edges)

\* G.number_of_edges(): a self-loop counts as one edge
NumberOfEdges(S) == Cardinality({e \in DOMAIN edges : e \subseteq S})

\* G.degree(node, weight=weight): a self-loop counts twice; weight=None counts edges
Degree(S, u, weighted) ==
    LET w == [v \in Neighbors(S, u) |-> IF weighted THEN EdgeWeight(u, v) ELSE 1]
    IN  ISum(Neighbors(S, u), w) + (IF u \in Neighbors(S, u) THEN w[u] ELSE 0)

\* nx.non_edges(G) of an undirected graph: every unordered pair of distinct
\* nodes that is not joined by an edge, once
NonEdges(S) == {p \in SUBSET S : Cardinality(p) = 2 /\ p \notin DOMAIN edges}

\* every unordered pair of distinct nodes
AllPairs(S) == {p \in SUBSET S : Cardinality(p) = 2}

PairU(p) == CHOOSE u \in p : \A v \in p : u <= v
PairV(p) == CHOOSE v \in p : \A u \in p : u <= v

(***************************************************************************)
(* similarity_algos.py                                                     *)
(***************************************************************************)
Jaccard == "jaccard"
WeightedJaccard == "weighted_jaccard"
AdamicAdar == "adamic_adar"
WeightedAdamicAdar == "weighted_adamic_adar"
ValidAlgorithms == {Jaccard, WeightedJaccard, AdamicAdar, WeightedAdamicAdar}
\* an identifier that is none of the four
Bogus == "cosine"
Algorithms == ValidAlgorithms \cup {Bogus}

NoKey == <<0, 0>>

NoError == "ok"
ValueError == "ValueError"
KeyError == "KeyError"
ZeroDivisionError == "ZeroDivisionError"

Ok(r) == [err |-> NoError, score |-> r]
Raise(e) == [err |-> e, score |-> NaNF]

\* add_weight_log(g, weight): writes 1 / log(degree) into the node attribute of
\* every node of the view whose degree is >= 2, and leaves the attribute of the
\* other nodes as it is
AddWeightLog(S, wl, weighted) ==
    [x \in DOMAIN wl |->
        IF x \in S /\ Degree(S, x, weighted) >= 2
        THEN InvLog(Degree(S, x, weighted))
        ELSE wl[x]]

\* common_neighbors(G, u, v)
CommonNeighbors(S, u, v) == Neighbors(S, u) \cap Neighbors(S, v)

\* weighted_adamic_adar_index.predict: sum(G.nodes[w][weight_log] for w in common)
PredictAdamicAdar(S, wl, u, v) ==
    LET cn == CommonNeighbors(S, u, v)
    IN  IF \E w \in cn : wl[w] = NoKey THEN Raise(KeyError)
        ELSE Ok(RSum(cn, wl))

\* jaccard_coefficient.predict
PredictJaccard(S, u, v) ==
    LET common == Neighbors(S, u) \cap Neighbors(S, v)
        all == Neighbors(S, u) \cup Neighbors(S, v)
    IN  IF all = {} THEN Ok(Zero)
        ELSE IF common = {} THEN Ok(Zero)
        ELSE Ok(Norm(Cardinality(common), Cardinality(all)))

Min(a, b) == IF a <= b THEN a ELSE b
Max(a, b) == IF a >= b THEN a ELSE b

\* G[x].get(w, {weight: 0})[weight]
WeightOrZero(S, x, w) == IF HasEdge(S, x, w) THEN EdgeWeight(x, w) ELSE 0

\* weighted_jaccard_coefficient.predict
PredictWeightedJaccard(S, u, v) ==
    LET common == Neighbors(S, u) \cap Neighbors(S, v)
        all == Neighbors(S, u) \cup Neighbors(S, v)
        numerator == ISum(common,
            [w \in common |-> Min(EdgeWeight(v, w), EdgeWeight(u, w))])
        denominator == ISum(all,
            [w \in all |-> Max(WeightOrZero(S, v, w), WeightOrZero(S, u, w))])
    IN  IF all = {} THEN Ok(Zero)
        ELSE IF common = {} THEN Ok(Zero)
        ELSE IF denominator = 0 THEN Raise(ZeroDivisionError)
        ELSE Ok(Norm(numerator, denominator))

\* (mutation of Ebunch: every pair of distinct nodes is evaluated)
EbunchAllPairs(S) == AllPairs(S)

\* the pairs a similarity function is applied to when ebunch is None
Ebunch(S) == NonEdges(S)

\* _apply_prediction: the (u, v, p) triples of one similarity function, as a
\* function from the evaluated pairs to the prediction; wl is the attribute
\* dictionary after add_weight_log
ApplyPrediction(S, wl, alg) ==
    [p \in Ebunch(S) |->
        CASE alg = Jaccard -> PredictJaccard(S, PairU(p), PairV(p))
          [] alg = WeightedJaccard -> PredictWeightedJaccard(S, PairU(p), PairV(p))
          [] OTHER -> PredictAdamicAdar(S, wl, PairU(p), PairV(p))]

\* the node attributes after calling the similarity function: only the two
\* Adamic-Adar functions call add_weight_log
WlogAfter(S, wl, alg) ==
    CASE alg = AdamicAdar -> AddWeightLog(S, wl, FALSE)
      [] alg = WeightedAdamicAdar -> AddWeightLog(S, wl, TRUE)
      [] OTHER -> wl

(***************************************************************************)
(* similarity_statistics.py: SimilarityStatistics                          *)
(***************************************************************************)
\* (mutation of IsClique: the division by two is forgotten)
IsCliqueNoHalf(S) == NumberOfEdges(S) = Cardinality(S) * (Cardinality(S) - 1)

\* is_clique: g.number_of_edges() == n * (n - 1) / 2
IsClique(S) == 2 * NumberOfEdges(S) = Cardinality(S) * (Cardinality(S) - 1)

\* dict get-or-default increment of the two defaultdicts
Bump(d, k, x) ==
    IF k \in DOMAIN d THEN [d EXCEPT ![k] = RAdd(@, x)] ELSE (k :> x) @@ d

\* (mutation of AccumulateOne: only the first endpoint is credited)
AccumulateOneEndpoint(acc, u, v, similarity) ==
    IF RPos(similarity)
    THEN [sum |-> Bump(acc.sum, u, similarity), cnt |-> Bump(acc.cnt, u, One)]
    ELSE acc

\* (mutation of AccumulateOne: a zero similarity is accumulated as well)
AccumulateOneUnfiltered(acc, u, v, similarity) ==
    [sum |-> Bump(Bump(acc.sum, u, similarity), v, similarity),
     cnt |-> Bump(Bump(acc.cnt, u, One), v, One)]

\* one iteration of the accumulation loop
AccumulateOne(acc, u, v, similarity) ==
    IF RPos(similarity)
    THEN [sum |-> Bump(Bump(acc.sum, u, similarity), v, similarity),
          cnt |-> Bump(Bump(acc.cnt, u, One), v, One)]
    ELSE acc

RECURSIVE Accumulate(_, _, _)
\* the loop over the (u, v, similarity) triples
Accumulate(pairs, preds, acc) ==
    IF pairs = {} THEN acc
    ELSE LET p == CHOOSE q \in pairs : TRUE
         IN  Accumulate(pairs \ {p}, preds,
                        AccumulateOne(acc, PairU(p), PairV(p), preds[p].score))

EmptyDict == [x \in {} |-> Zero]

NoPreds == [p \in {} |-> Ok(Zero)]

\* the final division pass: sum / count for every node that was accumulated
Averages(acc) == [x \in DOMAIN acc.sum |-> RDiv(acc.sum[x], acc.cnt[x])]

\* the loop of avg_similarity_4_nodes_by_graph over the predictions: the first
\* prediction that raises ends the call with that exception
AvgOverPredictions(preds, wl2) ==
    IF \E p \in DOMAIN preds : preds[p].err # NoError
    THEN [err |-> preds[CHOOSE p \in DOMAIN preds : preds[p].err # NoError].err,
          map |-> EmptyDict, preds |-> preds, wlog |-> wl2, clique |-> FALSE]
    ELSE [err |-> NoError,
          map |-> Averages(Accumulate(DOMAIN preds, preds,
                                      [sum |-> EmptyDict, cnt |-> EmptyDict])),
          preds |-> preds, wlog |-> wl2, clique |-> FALSE]

\* similarity_fn(subgraph): the Adamic-Adar functions run add_weight_log when
\* they are called, before any pair is evaluated
CallSimilarityFn(S, wl2, alg) == AvgOverPredictions(ApplyPrediction(S, wl2, alg), wl2)

\* avg_similarity_4_nodes_by_graph(subgraph) on the view S with the node
\* attributes wl and the algorithm alg.  Returns the outcome (err, map), the
\* evaluated pairs with their predictions, and the node attributes after the
\* call.
AvgSimilarity(S, wl, alg) ==
    IF IsClique(S)
    THEN [err |-> NoError, map |-> [x \in S |-> One],
          preds |-> NoPreds, wlog |-> wl, clique |-> TRUE]
    ELSE IF alg \notin ValidAlgorithms
    THEN [err |-> ValueError, map |-> EmptyDict,
          preds |-> NoPreds, wlog |-> wl, clique |-> FALSE]
    ELSE CallSimilarityFn(S, WlogAfter(S, wl, alg), alg)

(***************************************************************************)
(* similarity_statistics.py: get_subgraphs and get_similarity_4_feature    *)
(***************************************************************************)
NoAttr == "<absent>"    \* the node's attribute dictionary has no such key
NaN == "NaN"            \* float("nan"): not equal to itself
None == "None"          \* Python's None

\* a == b on attribute values
PyEq(a, b) == a = b /\ a # NaN

\* data.get(feature): None when the key is absent
DataGet(x, feature) == IF attrs[x][feature] = NoAttr THEN None ELSE attrs[x][feature]

\* nx.get_node_attributes(self.g, feature): the nodes that have the key
GetNodeAttributes(feature) == {x \in NodeSet : attrs[x][feature] # NoAttr}

\* unique_feature_values: {value for value in node_attributes.values() if value == value}
UniqueFeatureValues(feature) ==
    {v \in {attrs[x][feature] : x \in GetNodeAttributes(feature)} : PyEq(v, v)}

\* get_subgraphs(feature): feature value -> node set of the induced view
GetSubgraphs(feature) ==
    IF GetNodeAttributes(feature) = {} THEN [v \in {} |-> {}]
    ELSE [v \in UniqueFeatureValues(feature) |->
             {x \in NodeSet : PyEq(DataGet(x, feature), v)}]

\* an empty pd.DataFrame() / one feature's frame: label and value per node
EmptyFrame(wl) == [err |-> NoError, label |-> [x \in {} |-> ""],
                   value |-> EmptyDict, wlog |-> wl]

\* one iteration of the loop of get_similarity_4_feature: r is the outcome of
\* avg_similarity_4_nodes_by_graph on the subgraph of feature value v
AppendSubgraph(frame, v, r) ==
    IF r.err # NoError
    THEN [err |-> r.err, label |-> frame.label, value |-> frame.value, wlog |-> r.wlog]
    ELSE [err |-> NoError,
          label |-> [x \in DOMAIN r.map |-> v] @@ frame.label,
          value |-> r.map @@ frame.value,
          wlog |-> r.wlog]

RECURSIVE SubgraphLoop(_, _, _, _)
\* the loop over feature_values_subgraphs.items(); an exception ends it.  The
\* subgraphs of one feature have disjoint node sets, so the order in which the
\* values are visited does not change the outcome.
SubgraphLoop(subgraphs, todo, alg, frame) ==
    IF todo = {} \/ frame.err # NoError THEN frame
    ELSE LET v == CHOOSE w \in todo : TRUE
         IN  SubgraphLoop(subgraphs, todo \ {v}, alg,
                 AppendSubgraph(frame, v, AvgSimilarity(subgraphs[v], frame.wlog, alg)))

\* get_similarity_4_feature(feature), starting from the node attributes wl
GetSimilarity4Feature(feature, wl, alg) ==
    SubgraphLoop(GetSubgraphs(feature), DOMAIN GetSubgraphs(feature), alg, EmptyFrame(wl))

(***************************************************************************)
(* similarity_statistics.py: get_all_similarities                          *)
(*                                                                         *)
(* The similarity table (a pandas DataFrame indexed by node) is            *)
(*   rows : the index,                                                     *)
(*   base : the ("Base", "value") column, defined on the baseline's nodes, *)
(*          with base_gain and base_label, the other two Base columns,     *)
(*   cols : feature -> [label, value, gain], each defined on the nodes of  *)
(*          the feature's frame.                                           *)
(* A row outside a column's nodes holds missing values in that column.     *)
(***************************************************************************)
Inf == <<1, 0>>

\* float division as pandas does it: x / 0 is inf (nan for 0 / 0), no exception
PandasDiv(a, b) ==
    IF IsNaN(a) \/ IsNaN(b) THEN NaNF
    ELSE IF b[1] = 0 THEN (IF a[1] = 0 THEN NaNF ELSE Inf)
    ELSE RDiv(a, b)

\* (mutation of Gain: a node without a baseline value gets gain 0)
GainZeroWhenNoBase(value, x, base) ==
    IF x \in DOMAIN base
    THEN PandasDiv(RAbs(RSub(value, base[x])), base[x])
    ELSE Zero

\* (feature value - Base value).abs() / Base value, aligned on the index: the
\* result is missing for a node that has no Base value
Gain(value, x, base) ==
    IF x \in DOMAIN base
    THEN PandasDiv(RAbs(RSub(value, base[x])), base[x])
    ELSE NaNF

\* pd.concat([similarity, feature_df], axis=1) with the gain column added
ConcatFeature(table, feature, frame) ==
    [table EXCEPT
        !.rows = @ \cup DOMAIN frame.value,
        !.cols = (feature :>
                    [label |-> frame.label,
                     value |-> frame.value,
                     gain |-> [x \in DOMAIN frame.value |->
                                  Gain(frame.value[x], x, table.base)]]) @@ @,
        !.wlog = frame.wlog]

\* one iteration of the loop over self.target_features
FeatureStep(table, feature, frame) ==
    IF frame.err # NoError
    THEN [table EXCEPT !.err = frame.err, !.at = feature, !.wlog = frame.wlog]
    ELSE IF DOMAIN frame.value = {}
    THEN [table EXCEPT !.skipped = @ \cup {feature}, !.wlog = frame.wlog]
    ELSE ConcatFeature(table, feature, frame)

RECURSIVE FeatureLoop(_, _, _, _)
FeatureLoop(table, fs, i, alg) ==
    IF i > Len(fs) \/ table.err # NoError THEN table
    ELSE FeatureLoop(
            FeatureStep(table, fs[i],
                        GetSimilarity4Feature(fs[i], table.wlog, alg)),
            fs, i + 1, alg)

\* (mutation of BaseGainColumn: the gain column repeats the value column)
BaseGainColumnAsValue(base) == base

\* ("Base", "gain"): 0.0, broadcast over the index of the Base value column
BaseGainColumn(base) == [x \in DOMAIN base |-> Zero]

\* ("Base", "label"): "Base", broadcast over the same index
BaseLabelColumn(base) == [x \in DOMAIN base |-> "Base"]

\* the DataFrame built from the baseline
BaseTable(r) ==
    [err |-> r.err, at |-> IF r.err = NoError THEN "" ELSE "Base",
     rows |-> DOMAIN r.map, base |-> r.map,
     base_gain |-> BaseGainColumn(r.map), base_label |-> BaseLabelColumn(r.map),
     cols |-> [f \in {} |-> 0], skipped |-> {}, wlog |-> r.wlog]

\* self.target_features = [f for f in self.target_features if f not in skipped]
Retained(fs, skipped) == SelectSeq(fs, LAMBDA f : f \notin skipped)

\* get_all_similarities() with self.target_features = fs
GetAllSimilarities(fs, wl, alg) ==
    FeatureLoop(BaseTable(AvgSimilarity(NodeSet, wl, alg)), fs, 1, alg)

(***************************************************************************)
(* similarity_statistics.py: SimilarityAndGainsStatistics                  *)
(***************************************************************************)
\* the graph's name, used as the period tag
Period == "2023"

\* Series.mean(): the mean of the non-missing entries, missing when there is none
Mean(S, f) ==
    LET D == {x \in S : ~IsNaN(f[x])}
    IN  IF D = {} THEN NaNF ELSE RDiv(RSum(D, f), Rat(Cardinality(D)))

\* Series == scalar: a missing entry (NaN or None) compares unequal to everything
PandasEq(a, b) == a = b /\ a \notin {NaN, None}

\* self.similarity[feature]["label"].unique(): a row outside the feature's
\* frame holds a missing label
UniqueLabels(table, feature) ==
    {table.cols[feature].label[x] : x \in DOMAIN table.cols[feature].label}
        \cup (IF table.rows \ DOMAIN table.cols[feature].label # {} THEN {NaN} ELSE {})

\* get_gains_by_feature(feature)
GetGainsByFeature(table, feature) ==
    LET col == table.cols[feature]
    IN  [labels |-> [l \in UniqueLabels(table, feature) |->
                        Mean({x \in DOMAIN col.label : PyEq(col.label[x], l)}, col.gain)],
         global |-> Mean(DOMAIN col.gain, col.gain),
         period |-> Period]

\* get_gains_by_node(node) for a node of the table's index
GetGainsByNode(table, retained, x) ==
    [gains |-> [f \in {retained[i] : i \in 1..Len(retained)} |->
                   IF x \in DOMAIN table.cols[f].gain THEN table.cols[f].gain[x]
                   ELSE NaNF],
     period |-> Period]

\* pd.concat([get_gains_by_node(node) for node in self.g.nodes()]).set_index("node_id"):
\* pd.concat raises ValueError on an empty list; when every frame is empty the
\* concatenation has no "node_id" column and set_index raises KeyError
GainsByNodeError(table) ==
    IF NodeSet = {} THEN ValueError
    ELSE IF table.rows \cap NodeSet = {} THEN KeyError
    ELSE NoError

\* SimilarityAndGainsStatistics(g, fs, alg): the object's attributes
\* after __init__, or the exception that __init__ raised and the stage at
\* which it was raised
Construct(fs, alg, table) ==
    LET retained == Retained(fs, table.skipped)
    IN  IF table.err # NoError
        THEN [op |-> "construct", alg |-> alg, err |-> table.err, at |-> table.at,
              rows |-> {}, base |-> EmptyDict,
              base_gain |-> EmptyDict, base_label |-> [x \in {} |-> ""],
              cols |-> [f \in {} |-> 0],
              skipped |-> table.skipped,
              target_features |-> fs,
              gains_by_feature |-> [f \in {} |-> 0],
              gains_by_node |-> [x \in {} |-> 0]]
        ELSE [op |-> "construct", alg |-> alg,
              err |-> GainsByNodeError(table),
              at |-> IF GainsByNodeError(table) = NoError THEN "" ELSE "gains_by_node",
              rows |-> table.rows, base |-> table.base,
              base_gain |-> table.base_gain, base_label |-> table.base_label,
              cols |-> table.cols,
              skipped |-> table.skipped,
              target_features |-> retained,
              gains_by_feature |->
                  [f \in {retained[i] : i \in 1..Len(retained)} |->
                      GetGainsByFeature(table, f)],
              gains_by_node |->
                  IF GainsByNodeError(table) # NoError THEN [x \in {} |-> 0]
                  ELSE [x \in table.rows |-> GetGainsByNode(table, retained, x)]]

(***************************************************************************)
(* Input graphs.                                                           *)
(***************************************************************************)
EdgeSlots(k) == {p \in SUBSET (1..k) : Cardinality(p) \in {1, 2}}

\* Node ids carry no meaning for the engine, so one labelling per shape is
\* enough: the nodes are numbered by non-increasing number of incident edges.
Incident(D, x) == Cardinality({p \in D : x \in p})
Canonical(D, k) == \A x \in 1..k, y \in 1..k : x < y => Incident(D, x) >= Incident(D, y)

EdgeShapes(k, maxEdges) ==
    {D \in SUBSET EdgeSlots(k) : Cardinality(D) <= maxEdges /\ Canonical(D, k)}

\* the shapes without self-loops
SimpleShapes(k, maxEdges) ==
    {D \in EdgeShapes(k, maxEdges) : \A p \in D : Cardinality(p) = 2}

InputEdges(k, maxEdges) ==
    UNION {
        {e \in [D -> Weights \cup LoopWeights] :
            \A p \in D : IF Cardinality(p) = 1 THEN e[p] \in LoopWeights
                         ELSE e[p] \in Weights}
        : D \in EdgeShapes(k, maxEdges)}

\* edge weights of the graphs handed to the constructor
AggWeights == {0, 1}

\* the graphs handed to the constructor: no self-loops
AggInputEdges(k, maxEdges) ==
    UNION {[D -> AggWeights] : D \in SimpleShapes(k, maxEdges)}

Features == {"party", "state"}

NoSim == [op |-> "none"]
NoAgg == [op |-> "none"]
NoBatch == [pc |-> "none"]

\* the classes of graph objects
Graph == "Graph"
DiGraph == "DiGraph"
MultiGraph == "MultiGraph"

(***************************************************************************)
(* Specification of the similarity calculator: one graph object, and any   *)
(* sequence of avg_similarity calls on it (the batch runner constructs the *)
(* statistics once per algorithm on the same unpickled graph).             *)
(***************************************************************************)
InitSim ==
    /\ n \in 0..MaxNodes
    /\ edges \in InputEdges(n, MaxEdges)
    /\ attrs = [x \in 1..n |-> [f \in Features |-> NoAttr]]
    /\ wlog = [x \in 1..n |-> NoKey]
    /\ features = << >>
    /\ sim = NoSim
    /\ agg = NoAgg
    /\ kind = Graph
    /\ batch = NoBatch

\* SimilarityStatistics.avg_similarity_4_nodes_by_graph(self.g)
AvgSimilarityCall(alg) ==
    \E r \in {AvgSimilarity(NodeSet, wlog, alg)} :
        /\ sim' = [op |-> "avg_similarity", alg |-> alg, nodes |-> NodeSet,
                   before |-> wlog, err |-> r.err, map |-> r.map,
                   preds |-> r.preds, clique |-> r.clique]
        /\ wlog' = r.wlog
        /\ UNCHANGED <<n, edges, attrs, kind, features, agg, batch>>

NextSim == \E alg \in Algorithms : AvgSimilarityCall(alg)

SpecSim == InitSim /\ [][NextSim]_vars

(***************************************************************************)
(* SpecUniform: avg_similarity_4_nodes_by_graph on graphs in which every   *)
(* edge (self-loops included) carries the same weight.                     *)
(***************************************************************************)
UniformWeightValues == {0, 1, 2}

InitUniform ==
    /\ n \in 0..MaxAggNodes
    /\ \E c \in UniformWeightValues, D \in EdgeShapes(n, MaxEdges) : edges = [p \in D |-> c]
    /\ attrs = [x \in 1..n |-> [f \in Features |-> NoAttr]]
    /\ wlog = [x \in 1..n |-> NoKey]
    /\ features = << >>
    /\ sim = NoSim
    /\ agg = NoAgg
    /\ kind = Graph
    /\ batch = NoBatch

SpecUniform == InitUniform /\ [][NextSim]_vars

(***************************************************************************)
(* SpecAgg: one construction of SimilarityAndGainsStatistics on an input   *)
(* graph whose nodes carry the features of the target list.                *)
(***************************************************************************)
FeatureLists ==
    {<< >>, <<"party">>, <<"party", "state">>, <<"state", "party">>}

Range(s) == {s[i] : i \in 1..Len(s)}

StateNames == <<"S1", "S2", "S3", "S4", "S5">>

\* party of the nodes: the first a nodes "X", the next b - a nodes "Y", the
\* others NaN
PartyPatterns(k) ==
    UNION {{[x \in 1..k |-> IF x <= a THEN "X" ELSE IF x <= b THEN "Y" ELSE NaN] :
               b \in a..k} : a \in 0..k}

\* state of the nodes: every node its own state, or no node has the attribute
\* (a list that starts with the state is run on graphs that carry it)
StatePatterns(k, fs) ==
    {[x \in 1..k |-> StateNames[x]]}
        \cup (IF fs[1] = "state" THEN {} ELSE {[x \in 1..k |-> NoAttr]})

NoPattern(k) == {[x \in 1..k |-> NoAttr]}

\* node attributes of the input graphs for the target list fs
InputAttrs(k, fs) ==
    {[x \in 1..k |-> [f \in Features |-> IF f = "party" THEN p[x] ELSE s[x]]] :
        p \in (IF "party" \in Range(fs) THEN PartyPatterns(k) ELSE NoPattern(k)),
        s \in (IF "state" \in Range(fs) THEN StatePatterns(k, fs) ELSE NoPattern(k))}

InitAgg ==
    /\ n \in 0..MaxAggNodes
    /\ edges \in AggInputEdges(n, MaxEdges)
    /\ features \in FeatureLists
    /\ attrs \in InputAttrs(n, features)
    /\ wlog = [x \in 1..n |-> NoKey]
    /\ sim = NoSim
    /\ agg = NoAgg
    /\ kind = Graph
    /\ batch = NoBatch

\* SimilarityAndGainsStatistics(g, features, alg)
ConstructCall(alg) ==
    /\ agg.op = "none"
    /\ \E t \in {GetAllSimilarities(features, wlog, alg)} :
        /\ agg' = Construct(features, alg, t)
        /\ wlog' = t.wlog
    /\ UNCHANGED <<n, edges, attrs, kind, features, sim, batch>>

NextAgg == \E alg \in Algorithms : ConstructCall(alg)

SpecAgg == InitAgg /\ [][NextAgg]_vars

(***************************************************************************)
(* SpecPart: get_subgraphs on graphs whose nodes carry any mix of present, *)
(* NaN, None and absent party values.                                      *)
(***************************************************************************)
PartyValues == {NoAttr, NaN, None, "X", "Y"}

InitPart ==
    /\ n \in 0..MaxNodes
    /\ edges \in InputEdges(n, 0)
    /\ features = << >>
    /\ attrs \in {[x \in 1..n |-> [f \in Features |->
                        IF f = "party" THEN p[x] ELSE NoAttr]] :
                    p \in [1..n -> PartyValues]}
    /\ wlog = [x \in 1..n |-> NoKey]
    /\ sim = NoSim
    /\ agg = NoAgg
    /\ kind = Graph
    /\ batch = NoBatch

\* SimilarityStatistics.get_subgraphs(feature)
GetSubgraphsCall(feature) ==
    /\ sim' = [op |-> "get_subgraphs", feature |-> feature,
               subgraphs |-> GetSubgraphs(feature)]
    /\ UNCHANGED <<n, edges, attrs, wlog, kind, features, agg, batch>>

NextPart == \E feature \in Features : GetSubgraphsCall(feature)

SpecPart == InitPart /\ [][NextPart]_vars

(***************************************************************************)
(* Properties of the similarity calculator (checked under SpecSim).        *)
(***************************************************************************)
Called == sim.op = "avg_similarity"
\* the call ran one of the four algorithms over the pairs of a non-clique graph
RanAlgorithm == Called /\ ~sim.clique /\ sim.alg \in ValidAlgorithms
Adjacent(u, v) == {u, v} \in DOMAIN edges
\* a graph without self-loops in which some two distinct nodes are not adjacent
SimpleNonClique ==
    /\ \A u \in NodeSet : ~Adjacent(u, u)
    /\ \E u \in NodeSet, v \in NodeSet : u # v /\ ~Adjacent(u, v)

\* C1 (as stated): on a non-clique graph the algorithm is evaluated over every
\* unordered pair of distinct nodes, adjacent pairs included.
C1_AllPairsEvaluated ==
    RanAlgorithm =>
        \A u \in sim.nodes, v \in sim.nodes : u < v => {u, v} \in DOMAIN sim.preds

\* C1 (amended): on a non-clique graph (a simple graph that is not complete
\* always is one) the algorithm is evaluated over exactly the unordered pairs
\* of distinct nodes that are NOT adjacent; an adjacent pair is never
\* evaluated, so it contributes no score and no count.
C1_OnlyNonAdjacentPairsEvaluated ==
    /\ (Called /\ sim.alg \in ValidAlgorithms /\ SimpleNonClique) => RanAlgorithm
    /\ RanAlgorithm =>
          \A u \in sim.nodes, v \in sim.nodes :
              u < v => ({u, v} \in DOMAIN sim.preds <=> ~Adjacent(u, v))

\* the algorithm ran on a non-clique graph in which an adjacent pair has a
\* common neighbour, and the pair was not evaluated
C1_Witness ==
    /\ RanAlgorithm /\ sim.err = NoError
    /\ \E u \in sim.nodes, v \in sim.nodes :
          /\ u < v /\ Adjacent(u, v)
          /\ CommonNeighbors(sim.nodes, u, v) # {}
          /\ {u, v} \notin DOMAIN sim.preds

\* the graph is a complete graph on at least one node: a simple graph (no
\* self-loop) in which every two distinct nodes are adjacent
CompleteGraph ==
    /\ n >= 1
    /\ \A u \in NodeSet, v \in NodeSet : u # v => Adjacent(u, v)
    /\ \A u \in NodeSet : ~Adjacent(u, u)

\* C2: for every complete graph on n >= 1 nodes and each of the four
\* algorithms, avg_similarity returns a mapping whose keys are exactly the
\* nodes and whose values are all exactly 1.0.
C2_CliqueInvariant ==
    (Called /\ sim.alg \in ValidAlgorithms /\ CompleteGraph) =>
        /\ sim.err = NoError
        /\ DOMAIN sim.map = NodeSet
        /\ \A x \in NodeSet : sim.map[x] = One

\* avg_similarity was called on a complete graph with at least one edge
C2_Witness ==
    Called /\ sim.alg \in ValidAlgorithms /\ CompleteGraph /\ n >= 2

\* the evaluated pairs with a nonzero score that have x as an endpoint
ContributingPairs(x) ==
    {p \in DOMAIN sim.preds : x \in p /\ sim.preds[p].score # Zero}
PairScores == [p \in DOMAIN sim.preds |-> sim.preds[p].score]

FloorDegree(w) == Degree(sim.nodes, w, sim.alg = WeightedAdamicAdar)
DegreeTerms == [w \in sim.nodes |-> InvLog(FloorDegree(w))]

\* C9: in every (weighted) Adamic-Adar score, a common neighbour whose
\* (weighted) degree in the same graph is below 2 contributes nothing, after
\* any sequence of earlier computations on the same graph object, and the
\* computation does not fail because of such a node.
C9_DegreeFloor ==
    (RanAlgorithm /\ sim.alg \in {AdamicAdar, WeightedAdamicAdar}) =>
        \A p \in DOMAIN sim.preds :
            /\ sim.preds[p].err = NoError
            /\ sim.preds[p].score =
                  RSum({w \in CommonNeighbors(sim.nodes, PairU(p), PairV(p)) :
                           FloorDegree(w) >= 2}, DegreeTerms)

\* C10: for every evaluated pair, weighted_jaccard_coefficient is defined (no
\* division by zero, zero-weight edges included) and equals the sum of the
\* minima over the common neighbours divided by the sum of the maxima over
\* the union of the neighbourhoods, or 0 without a common neighbour.
C10_WeightedJaccardDefined ==
    (RanAlgorithm /\ sim.alg = WeightedJaccard) =>
        \A p \in DOMAIN sim.preds :
            LET u == PairU(p)
                v == PairV(p)
                Nu == {w \in sim.nodes : Adjacent(u, w)}
                Nv == {w \in sim.nodes : Adjacent(v, w)}
                mins == [w \in Nu \cap Nv |-> Min(edges[{u, w}], edges[{v, w}])]
                maxs == [w \in Nu \cup Nv |->
                            Max(IF w \in Nu THEN edges[{u, w}] ELSE 0,
                                IF w \in Nv THEN edges[{v, w}] ELSE 0)]
            IN  /\ sim.preds[p].err = NoError
                /\ sim.preds[p].score =
                      IF Nu \cap Nv = {} THEN Zero
                      ELSE Norm(ISum(Nu \cap Nv, mins), ISum(Nu \cup Nv, maxs))

\* all edges of the graph carry the same weight
UniformWeights == \A p \in DOMAIN edges, q \in DOMAIN edges : edges[p] = edges[q]

\* C11: on a graph in which all edges carry the same weight,
\* weighted_jaccard_coefficient returns for every evaluated pair the score of
\* jaccard_coefficient, and avg_similarity under weighted_jaccard equals
\* avg_similarity under jaccard for every node.
C11_UniformWeightsGiveJaccard ==
    (Called /\ sim.alg = WeightedJaccard /\ UniformWeights) =>
        /\ sim.err = NoError
        /\ \A p \in DOMAIN sim.preds :
              sim.preds[p] = PredictJaccard(sim.nodes, PairU(p), PairV(p))
        /\ sim.map = AvgSimilarity(sim.nodes, sim.before, Jaccard).map

\* C16: computing one of the four similarity functions leaves the graph
\* unchanged; of the graph's state only the node attributes can differ, so
\* the node attribute dictionaries are the same before and after the call.
C16_GraphUnchanged ==
    (Called /\ sim.alg \in ValidAlgorithms) => wlog = sim.before

(***************************************************************************)
(* Properties of the similarity table (checked under SpecAgg).             *)
(***************************************************************************)
Constructed == agg.op = "construct"
\* get_all_similarities returned: no exception while scoring the baseline or a feature
TableBuilt == Constructed /\ agg.at \notin ({"Base"} \cup Features)

\* C3: with an algorithm identifier that is not one of the four, building the
\* similarity statistics fails with the unsupported-algorithm ValueError
\* (raised while the similarities are computed) and produces no table,
\* whatever the shape of the graph and of its feature subgraphs.
C3_InvalidAlgorithmRejected ==
    (Constructed /\ agg.alg \notin ValidAlgorithms) =>
        /\ agg.err = ValueError
        /\ agg.at \in ({"Base"} \cup Features)

C6_FeatureErrorContained ==
    (Constructed /\ agg.alg \in ValidAlgorithms) => agg.at \notin Features

\* no node carries a valid value of the feature
NoCarrier(f) == \A x \in NodeSet : attrs[x][f] \in {NoAttr, NaN}

\* C7: when a target feature is carried by no node, or all its subgraphs
\* yield an empty mapping, then (unless the scoring itself raised) the
\* construction does not raise, the table has no column for the feature, the
\* feature is not in the retained target_features and gains_by_feature has no
\* entry for it.
C7_DegenerateFeatureSkipped ==
    (TableBuilt /\ agg.alg \in ValidAlgorithms) =>
        \A f \in Range(features) :
            (NoCarrier(f) \/ f \in agg.skipped) =>
                /\ agg.err = NoError
                /\ f \notin DOMAIN agg.cols
                /\ f \notin Range(agg.target_features)
                /\ f \notin DOMAIN agg.gains_by_feature

\* the mean of the defined gains of the nodes in S for the feature f
MeanDefinedGain(f, S) ==
    LET D == {x \in S : ~IsNaN(agg.cols[f].gain[x])}
        g == [x \in D |-> agg.cols[f].gain[x]]
    IN  IF D = {} THEN NaNF ELSE RDiv(RSum(D, g), Rat(Cardinality(D)))

\* C13: after construction, gains_by_feature[f] of every retained feature f
\* holds exactly one entry per feature value that labels a node of f's column
\* (the mean of the defined gains of the nodes with that label), the entry
\* "global" (the mean of the defined gains of all nodes) and the period tag;
\* there is no entry for a missing (NaN) label.
C13_GainsByFeatureEntries ==
    (Constructed /\ agg.err = NoError) =>
        /\ DOMAIN agg.gains_by_feature = Range(agg.target_features)
        /\ \A f \in Range(agg.target_features) :
              LET col == agg.cols[f]
                  gbf == agg.gains_by_feature[f]
                  values == {col.label[x] : x \in DOMAIN col.label}
              IN  /\ DOMAIN gbf.labels = values
                  /\ NaN \notin DOMAIN gbf.labels
                  /\ \A l \in values :
                        gbf.labels[l] =
                            MeanDefinedGain(f, {x \in DOMAIN col.label : col.label[x] = l})
                  /\ gbf.global = MeanDefinedGain(f, DOMAIN col.gain)
                  /\ gbf.period = Period

\* C14: for every graph (a graph without nodes and a table without rows
\* included) and every valid algorithm, when the similarity table is built the
\* construction completes and gains_by_node has exactly one row per node of
\* the table, holding the node's gain for each retained feature (missing
\* where the node has none) and the period.
C14_GainsByNodeRows ==
    (TableBuilt /\ agg.alg \in ValidAlgorithms) =>
        /\ agg.err = NoError
        /\ DOMAIN agg.gains_by_node = agg.rows
        /\ \A x \in agg.rows :
              /\ DOMAIN agg.gains_by_node[x].gains = Range(agg.target_features)
              /\ \A f \in Range(agg.target_features) :
                    agg.gains_by_node[x].gains[f] =
                        IF x \in DOMAIN agg.cols[f].gain THEN agg.cols[f].gain[x]
                        ELSE NaNF
              /\ agg.gains_by_node[x].period = Period

(***************************************************************************)
(* Properties of the partitioning (checked under SpecPart).                *)
(***************************************************************************)
Partitioned == sim.op = "get_subgraphs"

\* C8: the subgraphs returned by get_subgraphs partition exactly the nodes
\* with a non-missing value of the feature: such a node is in the subgraph
\* keyed by its value and in no other, and a node whose attribute is absent,
\* NaN or None is in no subgraph.
C8_PartitionOfValuedNodes ==
    Partitioned =>
        \A x \in NodeSet :
            LET value == attrs[x][sim.feature]
            IN  IF value \in {NoAttr, NaN, None}
                THEN \A k \in DOMAIN sim.subgraphs : x \notin sim.subgraphs[k]
                ELSE /\ value \in DOMAIN sim.subgraphs
                     /\ \A k \in DOMAIN sim.subgraphs :
                           x \in sim.subgraphs[k] <=> k = value


(***************************************************************************)
(* Directed graphs and multigraphs handed to the similarity calculator.    *)
(*                                                                         *)
(* An arc u -> v of a networkx.DiGraph is the edge key <<u, v>>; the k-th  *)
(* parallel edge between u < v of a networkx.MultiGraph is the edge key    *)
(* <<u, v, k>>.  No self-loops.                                            *)
(***************************************************************************)
NetworkXNotImplemented == "NetworkXNotImplemented"

\* G[u]: the successors of u in a DiGraph, the neighbours of u in a MultiGraph
KindAdj(S, u) ==
    IF kind = DiGraph
    THEN {v \in S : <<u, v>> \in DOMAIN edges}
    ELSE {v \in S : \E e \in DOMAIN edges : {e[1], e[2]} = {u, v}}

\* g.number_of_edges(): every arc and every parallel edge counts
KindNumberOfEdges(S) == Cardinality({e \in DOMAIN edges : {e[1], e[2]} \subseteq S})

\* is_clique on such a graph
KindIsClique(S) == 2 * KindNumberOfEdges(S) = Cardinality(S) * (Cardinality(S) - 1)

\* nx.non_edges(G): ordered pairs (u, v) with v not a successor of u when G is
\* directed, unordered pairs of non-adjacent nodes otherwise
KindNonEdges(S) ==
    IF kind = DiGraph
    THEN {p \in S \X S : p[1] # p[2] /\ p[2] \notin KindAdj(S, p[1])}
    ELSE {p \in S \X S : p[1] < p[2] /\ p[2] \notin KindAdj(S, p[1])}

\* jaccard_coefficient.predict over G[u] and G[v]
KindPredictJaccard(S, u, v) ==
    LET common == KindAdj(S, u) \cap KindAdj(S, v)
        all == KindAdj(S, u) \cup KindAdj(S, v)
    IN  IF all = {} THEN Ok(Zero)
        ELSE IF common = {} THEN Ok(Zero)
        ELSE Ok(Norm(Cardinality(common), Cardinality(all)))

\* the functions wrapped in @not_implemented_for("directed") and
\* @not_implemented_for("multigraph"); adamic_adar_index calls a wrapped one
Decorated == {AdamicAdar, WeightedJaccard, WeightedAdamicAdar}

RECURSIVE KindAccumulate(_, _, _)
\* the accumulation loop over the (u, v, similarity) triples of non_edges
KindAccumulate(pairs, preds, acc) ==
    IF pairs = {} THEN acc
    ELSE LET p == CHOOSE q \in pairs : TRUE
         IN  KindAccumulate(pairs \ {p}, preds,
                            AccumulateOne(acc, p[1], p[2], preds[p].score))

\* avg_similarity_4_nodes_by_graph(subgraph) when the graph object is a
\* DiGraph or a MultiGraph
KindAvgSimilarity(S, wl, alg) ==
    IF KindIsClique(S)
    THEN [err |-> NoError, map |-> [x \in S |-> One],
          preds |-> NoPreds, wlog |-> wl, clique |-> TRUE]
    ELSE IF alg \notin ValidAlgorithms
    THEN [err |-> ValueError, map |-> EmptyDict,
          preds |-> NoPreds, wlog |-> wl, clique |-> FALSE]
    ELSE IF alg \in Decorated
    THEN [err |-> NetworkXNotImplemented, map |-> EmptyDict,
          preds |-> NoPreds, wlog |-> wl, clique |-> FALSE]
    ELSE LET preds == [p \in KindNonEdges(S) |-> KindPredictJaccard(S, p[1], p[2])]
         IN  [err |-> NoError,
              map |-> Averages(KindAccumulate(DOMAIN preds, preds,
                                   [sum |-> EmptyDict, cnt |-> EmptyDict])),
              preds |-> preds, wlog |-> wl, clique |-> FALSE]

\* edge keys of the directed graphs and multigraphs on k nodes
ArcSlots(k) == {p \in (1..k) \X (1..k) : p[1] # p[2]}
ParallelKeys == {0, 1}
MultiSlots(k) == {p \in (1..k) \X (1..k) \X ParallelKeys : p[1] < p[2]}
KindSlots(c, k) == IF c = DiGraph THEN ArcSlots(k) ELSE MultiSlots(k)

(***************************************************************************)
(* SpecKind: avg_similarity_4_nodes_by_graph on a DiGraph or a MultiGraph. *)
(***************************************************************************)
InitKind ==
    /\ kind \in {DiGraph, MultiGraph}
    /\ n \in 0..MaxNodes
    /\ \E D \in SUBSET KindSlots(kind, n) :
          /\ Cardinality(D) <= MaxEdges
          /\ edges = [e \in D |-> 1]
    /\ attrs = [x \in 1..n |-> [f \in Features |-> NoAttr]]
    /\ wlog = [x \in 1..n |-> NoKey]
    /\ features = << >>
    /\ sim = NoSim
    /\ agg = NoAgg
    /\ batch = NoBatch

KindAvgSimilarityCall(alg) ==
    \E r \in {KindAvgSimilarity(NodeSet, wlog, alg)} :
        /\ sim' = [op |-> "avg_similarity", alg |-> alg, nodes |-> NodeSet,
                   before |-> wlog, err |-> r.err, map |-> r.map,
                   preds |-> r.preds, clique |-> r.clique]
        /\ wlog' = r.wlog
        /\ UNCHANGED <<n, edges, attrs, kind, features, agg, batch>>

NextKind == \E alg \in Algorithms : KindAvgSimilarityCall(alg)

SpecKind == InitKind /\ [][NextKind]_vars

\* C12: on a directed graph or a multigraph, a call of avg_similarity with any
\* of the four algorithm identifiers ends with the unsupported-graph-kind
\* error, on the clique short-circuit and for plain jaccard as well
C12_UnsupportedKindRejected ==
    (Called /\ kind \in {DiGraph, MultiGraph} /\ sim.alg \in ValidAlgorithms) =>
        sim.err = NetworkXNotImplemented


(***************************************************************************)
(* SpecOrder: get_all_similarities on one graph with the target features   *)
(* in the given order, and on an equal graph (same nodes, edges and        *)
(* attributes as before the first run) with the features in the reverse    *)
(* order.  The first table is kept in `sim`, the second one in `agg`.      *)
(***************************************************************************)
Reverse(s) == [i \in 1..Len(s) |-> s[Len(s) + 1 - i]]

\* party: the first a nodes "X", the others NaN; state: "S" or "T" on each
\* node, the state of node 1 being called "S"
OrderAttrs(k) ==
    {[x \in 1..k |-> [f \in Features |->
          IF f = "party" THEN (IF x <= a THEN "X" ELSE NaN) ELSE s[x]]] :
        a \in 0..k, s \in {t \in [1..k -> {"S", "T"}] : k = 0 \/ t[1] = "S"}}

InitOrder ==
    /\ n \in 0..MaxAggNodes
    /\ edges \in UNION {[D -> Weights] : D \in SimpleShapes(n, MaxEdges)}
    /\ features = <<"party", "state">>
    /\ attrs \in OrderAttrs(n)
    /\ wlog = [x \in 1..n |-> NoKey]
    /\ sim = NoSim
    /\ agg = NoAgg
    /\ kind = Graph
    /\ batch = NoBatch

\* the table as the caller sees it
TableOf(fs, alg, t) ==
    [op |-> "get_all_similarities", alg |-> alg, fs |-> fs, before |-> wlog,
     err |-> t.err, rows |-> t.rows, base |-> t.base, cols |-> t.cols]

\* SimilarityStatistics(g, features, alg).similarity
GetAllSimilaritiesCall(alg) ==
    /\ sim.op = "none"
    /\ \E t \in {GetAllSimilarities(features, wlog, alg)} :
        /\ sim' = TableOf(features, alg, t)
        /\ wlog' = t.wlog
    /\ UNCHANGED <<n, edges, attrs, kind, features, agg, batch>>

\* SimilarityStatistics(g2, reversed(features), alg).similarity on the equal
\* graph g2, whose node attributes are those g had before the first run
ReorderedCall ==
    /\ sim.op = "get_all_similarities"
    /\ agg.op = "none"
    /\ \E t \in {GetAllSimilarities(Reverse(features), sim.before, sim.alg)} :
        agg' = TableOf(Reverse(features), sim.alg, t)
    /\ UNCHANGED <<n, edges, attrs, wlog, kind, features, sim, batch>>

NextOrder == (\E alg \in Algorithms : GetAllSimilaritiesCall(alg)) \/ ReorderedCall

SpecOrder == InitOrder /\ [][NextOrder]_vars

BothOrders == sim.op = "get_all_similarities" /\ agg.op = "get_all_similarities"

\* C15: when get_all_similarities has run on the same graph with the same
\* algorithm and the two orderings of the same distinct target features, the
\* two tables have the same baseline column and the same label, value and gain
\* in every (node, feature) cell
C15_FeatureOrderIrrelevant ==
    (BothOrders /\ sim.alg \in ValidAlgorithms
                /\ sim.err = NoError /\ agg.err = NoError) =>
        /\ sim.rows = agg.rows
        /\ sim.base = agg.base
        /\ sim.cols = agg.cols


(***************************************************************************)
(* The two per-graph runners: get_statistics_all_networks (__main__.py)    *)
(* and get_statistics_4_similarity_algorithm (run_statistics.py).          *)
(*                                                                         *)
(* Of the node file features/{algorithm}/nodes/{name}_nodes.csv the model  *)
(* keeps the gain cell of every (node, retained feature) of gains_by_node; *)
(* the centrality columns that __main__.py joins to it are left out.       *)
(***************************************************************************)
\* BasicStatistics(g): sum(...) / self.number_of_nodes on a graph without
\* nodes, and 1 / d["weight"] on an edge of weight 0, raise ZeroDivisionError
BasicStatisticsError ==
    IF NodeSet = {} THEN ZeroDivisionError
    ELSE IF \E e \in DOMAIN edges : edges[e] = 0 THEN ZeroDivisionError
    ELSE NoError

\* DataFrame.fillna(0) on one cell
FillNa0(v) == IF IsNaN(v) THEN Zero ELSE v

\* the gain cells of a node frame
GainCells(gains_by_node) == [x \in DOMAIN gains_by_node |-> gains_by_node[x].gains]

\* pd.concat([sgs.gains_by_node, bs.nodes_to_dataframe()], join="outer",
\* axis=1).fillna(0): the gain cells after the fill
JoinedFilled(gains_by_node) ==
    [x \in DOMAIN gains_by_node |->
        [f \in DOMAIN gains_by_node[x].gains |-> FillNa0(gains_by_node[x].gains[f])]]

NotWritten == [x \in {} |-> 0]

\* the outcome of one job: the exception that ended it (if any) and the gain
\* cells of the node file it wrote
JobDone(runner, err, written, cells) ==
    [pc |-> "job", runner |-> runner, err |-> err, written |-> written,
     nodes_csv |-> cells]

\* get_statistics_all_networks(file, features, alg, save_path, semaphore) up
\* to the node file
MainNodeFileJob(alg) ==
    /\ agg.op = "none"
    /\ batch.pc = "none"
    /\ IF BasicStatisticsError # NoError
       THEN /\ batch' = JobDone("__main__", BasicStatisticsError, FALSE, NotWritten)
            /\ UNCHANGED <<agg, wlog>>
       ELSE \E t \in {GetAllSimilarities(features, wlog, alg)} :
            \E sgs \in {Construct(features, alg, t)} :
                /\ agg' = sgs
                /\ wlog' = t.wlog
                /\ batch' = IF sgs.err # NoError
                            THEN JobDone("__main__", sgs.err, FALSE, NotWritten)
                            ELSE JobDone("__main__", NoError, TRUE,
                                         JoinedFilled(sgs.gains_by_node))
    /\ UNCHANGED <<n, edges, attrs, kind, features, sim>>

\* get_statistics_4_similarity_algorithm(g, features, alg, save_path)
RunStatisticsNodeFileJob(alg) ==
    /\ agg.op = "none"
    /\ batch.pc = "none"
    /\ \E t \in {GetAllSimilarities(features, wlog, alg)} :
       \E sgs \in {Construct(features, alg, t)} :
            /\ agg' = sgs
            /\ wlog' = t.wlog
            /\ batch' = IF sgs.err # NoError
                        THEN JobDone("run_statistics", sgs.err, FALSE, NotWritten)
                        ELSE JobDone("run_statistics", NoError, TRUE,
                                     GainCells(sgs.gains_by_node))
    /\ UNCHANGED <<n, edges, attrs, kind, features, sim>>

NextOut ==
    \E alg \in Algorithms : MainNodeFileJob(alg) \/ RunStatisticsNodeFileJob(alg)

SpecOut == InitAgg /\ [][NextOut]_vars

\* the gain of node x for feature f is undefined: the node has no baseline
\* value or no value for the feature
UndefinedGain(x, f) == x \notin DOMAIN agg.base \/ x \notin DOMAIN agg.cols[f].value

\* C17: in the node file that a runner writes, the gain cell of a node whose
\* gain for the feature is undefined holds a missing value, never the number 0
C17_UndefinedGainWrittenMissing ==
    (batch.pc = "job" /\ batch.written) =>
        \A x \in DOMAIN batch.nodes_csv : \A f \in DOMAIN batch.nodes_csv[x] :
            UndefinedGain(x, f) => IsNaN(batch.nodes_csv[x][f])


(***************************************************************************)
(* The threaded batch runner, __main__.py: main() starts one thread per    *)
(* (algorithm, file) job, algorithms in the outer loop, and takes a permit *)
(* of a semaphore of MAX_THREADS permits before it creates each thread;    *)
(* the job gives the permit back in its last statement.                    *)
(*                                                                         *)
(* batch.pc is the position of main(): "loop" (at semaphore.acquire() for  *)
(* job batch.next, or leaving the loops), "created" (thread created, not   *)
(* started), "join" (in the join loop), "joined", "consolidated".          *)
(* batch.status[j] is the state of the thread of job j: "new", "running"   *)
(* or "ended"; batch.sem is the number of permits left.                    *)
(***************************************************************************)
MAX_THREADS == 8

MaxFiles == 5

\* similarity_algorithms of the run
BatchAlgorithms == <<"adamic_adar", "jaccard">>

NJobs(b) == Len(BatchAlgorithms) * b.files

\* the j-th job of the nested loops: algorithms outside, files inside
JobAlgorithm(b, j) == BatchAlgorithms[((j - 1) \div b.files) + 1]
JobFile(b, j) == ((j - 1) % b.files) + 1

Running(b) == {j \in 1..NJobs(b) : b.status[j] = "running"}
Terminated(b) == {j \in 1..NJobs(b) : b.status[j] = "ended"}

\* the permits that no thread will give back: those of the jobs that raised
Leaked(b) ==
    MAX_THREADS - b.sem - Cardinality(Running(b)) - (IF b.pc = "created" THEN 1 ELSE 0)

\* the files a job writes
Paths(b, j) ==
    {<<"features", JobAlgorithm(b, j), "nodes", JobFile(b, j)>>,
     <<"networks", JobFile(b, j)>>}
        \cup {<<"features", JobAlgorithm(b, j), "network", JobFile(b, j), f>> :
                f \in Features}

\* (mutation of CanAcquire: the permit count is not looked at)
CanAcquireAlways(b) == TRUE

\* semaphore.acquire() returns only when a permit is left
CanAcquire(b) == b.sem > 0

InitBatch ==
    /\ \E k \in 0..MaxFiles :
          batch = [pc |-> IF k = 0 THEN "join" ELSE "loop", files |-> k, next |-> 1,
                   sem |-> MAX_THREADS,
                   status |-> [j \in 1..(Len(BatchAlgorithms) * k) |-> "new"]]
    /\ n = 0
    /\ edges = [p \in {} |-> 0]
    /\ attrs = [x \in {} |-> 0]
    /\ wlog = [x \in {} |-> 0]
    /\ features = <<"party", "state">>
    /\ sim = NoSim
    /\ agg = NoAgg
    /\ kind = Graph

\* main: semaphore.acquire(), then the thread is created and appended
Acquire ==
    /\ batch.pc = "loop"
    /\ batch.next <= NJobs(batch)
    /\ CanAcquire(batch)
    /\ batch' = [batch EXCEPT !.sem = @ - 1, !.pc = "created"]
    /\ UNCHANGED <<n, edges, attrs, wlog, kind, features, sim, agg>>

\* main: time.sleep(1.5); t.start(); next iteration or end of the loops
StartThread ==
    /\ batch.pc = "created"
    /\ batch' = [batch EXCEPT !.status[batch.next] = "running",
                              !.next = @ + 1,
                              !.pc = IF batch.next = NJobs(batch) THEN "join" ELSE "loop"]
    /\ UNCHANGED <<n, edges, attrs, wlog, kind, features, sim, agg>>

\* a job runs to its last statement: semaphore.release()
FinishJob(j) ==
    /\ batch.pc # "none"
    /\ j \in Running(batch)
    /\ batch' = [batch EXCEPT !.status[j] = "ended", !.sem = @ + 1]
    /\ UNCHANGED <<n, edges, attrs, wlog, kind, features, sim, agg>>

\* a job raises (pickle.load, BasicStatistics, SimilarityAndGainsStatistics or
\* to_csv): the thread ends, semaphore.release() is not reached
FailJob(j) ==
    /\ batch.pc # "none"
    /\ j \in Running(batch)
    /\ batch' = [batch EXCEPT !.status[j] = "ended"]
    /\ UNCHANGED <<n, edges, attrs, wlog, kind, features, sim, agg>>

\* main: for t in threads: t.join()
JoinAll ==
    /\ batch.pc = "join"
    /\ Terminated(batch) = 1..NJobs(batch)
    /\ batch' = [batch EXCEPT !.pc = "joined"]
    /\ UNCHANGED <<n, edges, attrs, wlog, kind, features, sim, agg>>

\* main: consolidate_files(save_path, similarity_algorithms, target_features)
Consolidate ==
    /\ batch.pc = "joined"
    /\ batch' = [batch EXCEPT !.pc = "consolidated"]
    /\ UNCHANGED <<n, edges, attrs, wlog, kind, features, sim, agg>>

NextBatch ==
    \/ Acquire
    \/ StartThread
    \/ \E j \in 1..(Len(BatchAlgorithms) * MaxFiles) : FinishJob(j)
    \/ \E j \in 1..(Len(BatchAlgorithms) * MaxFiles) : FailJob(j)
    \/ JoinAll
    \/ Consolidate

SpecBatch == InitBatch /\ [][NextBatch]_vars

\* the scheduler runs every thread that can take a step
SpecBatchLive == SpecBatch /\ WF_vars(NextBatch)

\* C18: whatever jobs fail, the batch finishes: main() leaves the loops, joins
\* every thread and reaches the consolidation step
C18_BatchEventuallyConsolidates == <>(batch.pc = "consolidated")

\* C19: at every moment at most MAX_THREADS jobs are executing
C19_AtMostMaxThreadsRunning == Cardinality(Running(batch)) <= MAX_THREADS

\* MAX_THREADS jobs are executing, and main() waits at semaphore.acquire()
\* for a permit for the next job
C19_Witness ==
    /\ batch.pc = "loop"
    /\ batch.next <= NJobs(batch)
    /\ Cardinality(Running(batch)) = MAX_THREADS
    /\ batch.sem = 0

\* C20: two distinct jobs that are executing at the same moment write disjoint
\* sets of output paths
C20_ConcurrentJobsWriteDisjointPaths ==
    \A j \in Running(batch), k \in Running(batch) :
        j # k => Paths(batch, j) \cap Paths(batch, k) = {}


(***************************************************************************)
(* The process-pool task: task_processor.process_task and                  *)
(* run_statistics.get_statistics_4_network.                                *)
(***************************************************************************)
\* the similarity_algorithms lists handed to a task
TaskAlgorithmLists ==
    {<<a>> : a \in Algorithms} \cup {<<AdamicAdar, Jaccard>>, <<Bogus, Jaccard>>}

RECURSIVE AlgorithmLoop(_, _, _, _)
\* the loop of get_statistics_4_network over similarity_algorithms, all on the
\* graph g that was unpickled once: an exception of one algorithm is caught
\* and logged, and the loop goes on.  acc.errs is the outcome per algorithm,
\* acc.wlog the node attributes of g.
AlgorithmLoop(fs, algs, i, acc) ==
    IF i > Len(algs) THEN acc
    ELSE LET t == GetAllSimilarities(fs, acc.wlog, algs[i])
             sgs == Construct(fs, algs[i], t)
         IN  AlgorithmLoop(fs, algs, i + 1,
                 [errs |-> Append(acc.errs, sgs.err), wlog |-> t.wlog])

\* get_statistics_4_network never raises: every stage sits in a try/except
\* that logs; the function returns None on every path
GetStatistics4Network(loadable, fs, algs, wl) ==
    IF ~loadable
    THEN [loaded |-> FALSE, bs |-> NoError, errs |-> << >>, wlog |-> wl, raised |-> FALSE]
    ELSE LET r == AlgorithmLoop(fs, algs, 1, [errs |-> << >>, wlog |-> wl])
         IN  [loaded |-> TRUE, bs |-> BasicStatisticsError, errs |-> r.errs,
              wlog |-> r.wlog, raised |-> FALSE]

\* process_task(args): True unless get_statistics_4_network raised
ProcessTask(loadable, algs) ==
    /\ batch.pc = "none"
    /\ \E r \in {GetStatistics4Network(loadable, features, algs, wlog)} :
          /\ batch' = [pc |-> "task", algs |-> algs, loaded |-> r.loaded,
                       bs |-> r.bs, errs |-> r.errs, returned |-> ~r.raised]
          /\ wlog' = r.wlog
    /\ UNCHANGED <<n, edges, attrs, kind, features, sim, agg>>

InitTask ==
    /\ n \in 0..MaxNodes
    /\ edges \in AggInputEdges(n, MaxEdges)
    /\ features = <<"party">>
    /\ attrs \in InputAttrs(n, features)
    /\ wlog = [x \in 1..n |-> NoKey]
    /\ sim = NoSim
    /\ agg = NoAgg
    /\ kind = Graph
    /\ batch = NoBatch

NextTask == \E loadable \in BOOLEAN, algs \in TaskAlgorithmLists : ProcessTask(loadable, algs)

SpecTask == InitTask /\ [][NextTask]_vars

\* some stage of the task failed: the graph was not loaded, or the statistics
\* of a requested algorithm raised
TaskFailed ==
    ~batch.loaded \/ \E i \in 1..Len(batch.errs) : batch.errs[i] # NoError

\* C21: process_task returns False whenever the graph could not be loaded or
\* the statistics of a requested algorithm raised, and True only when every
\* output of the job (basic statistics included) was computed and written
C21_TaskReportsFailure ==
    (batch.pc = "task") =>
        /\ TaskFailed => ~batch.returned
        /\ batch.returned => (~TaskFailed /\ batch.bs = NoError)


(***************************************************************************)
(* Scenarios of the similarity calculator.                                 *)
(***************************************************************************)
\* C22: for a graph that consists of a single isolated node, avg_similarity
\* returns the empty mapping
C22_IsolatedNodeEmptyMapping ==
    (Called /\ sim.alg \in ValidAlgorithms
            /\ Cardinality(sim.nodes) = 1 /\ DOMAIN edges = {}) =>
        /\ sim.err = NoError
        /\ sim.map = EmptyDict


(***************************************************************************)
(* SpecFeature: get_similarity_4_feature("party") on graphs with unit      *)
(* weights whose nodes all carry a party, "X" or "Y".                      *)
(***************************************************************************)
UnitEdges(k, maxEdges) ==
    {[p \in D |-> 1] : D \in {E \in SUBSET {p \in EdgeSlots(k) : Cardinality(p) = 2} :
                                 Cardinality(E) <= maxEdges}}

InitFeature ==
    /\ n \in 0..MaxAggNodes
    /\ edges \in UnitEdges(n, MaxEdges)
    /\ features = <<"party">>
    /\ attrs \in {[x \in 1..n |-> [f \in Features |->
                        IF f = "party" THEN p[x] ELSE NoAttr]] :
                    p \in [1..n -> {"X", "Y"}]}
    /\ wlog = [x \in 1..n |-> NoKey]
    /\ sim = NoSim
    /\ agg = NoAgg
    /\ kind = Graph
    /\ batch = NoBatch

\* get_similarity_4_feature(feature): the subgraphs of get_subgraphs and, for
\* each of them, the outcome of avg_similarity_4_nodes_by_graph (the subgraphs
\* of one feature share no node, so each outcome is that of a call on the
\* node attributes the graph had before)
GetSimilarity4FeatureCall(alg) ==
    /\ sim.op = "none"
    /\ \E frame \in {GetSimilarity4Feature("party", wlog, alg)} :
          /\ sim' = [op |-> "get_similarity_4_feature", alg |-> alg,
                     subgraphs |-> GetSubgraphs("party"),
                     results |-> [v \in DOMAIN GetSubgraphs("party") |->
                                     AvgSimilarity(GetSubgraphs("party")[v], wlog, alg)],
                     err |-> frame.err, label |-> frame.label, value |-> frame.value]
          /\ wlog' = frame.wlog
    /\ UNCHANGED <<n, edges, attrs, kind, features, agg, batch>>

NextFeature == \E alg \in Algorithms : GetSimilarity4FeatureCall(alg)

SpecFeature == InitFeature /\ [][NextFeature]_vars

\* the path A - B - C - D (nodes 1 - 2 - 3 - 4) with unit weights and
\* party = {A: X, B: X, C: Y, D: Y}
PathABCD ==
    /\ n = 4
    /\ edges = [p \in {{1, 2}, {2, 3}, {3, 4}} |-> 1]
    /\ \A x \in 1..n : attrs[x]["party"] = (IF x <= 2 THEN "X" ELSE "Y")

FeatureCalled == sim.op = "get_similarity_4_feature"

\* C23 (as stated): on the path A-B-C-D the two party subgraphs have zero edges
\* each, neither is treated as a clique, and jaccard is run on the pairs (A, B)
\* and (C, D)
C23_PartySubgraphsHaveNoEdge ==
    (FeatureCalled /\ PathABCD /\ sim.alg = Jaccard) =>
        /\ sim.subgraphs = [v \in {"X", "Y"} |-> IF v = "X" THEN {1, 2} ELSE {3, 4}]
        /\ \A v \in DOMAIN sim.subgraphs :
              /\ NumberOfEdges(sim.subgraphs[v]) = 0
              /\ ~sim.results[v].clique
              /\ DOMAIN sim.results[v].preds = {sim.subgraphs[v]}

\* C23 (amended): on the path A-B-C-D the two party subgraphs {A, B} and {C, D}
\* have one edge each (A-B and C-D are edges of the path), each is a clique,
\* no pair is scored and every node gets the value 1.0
C23_PartySubgraphsAreCliques ==
    (FeatureCalled /\ PathABCD /\ sim.alg \in ValidAlgorithms) =>
        /\ sim.subgraphs = [v \in {"X", "Y"} |-> IF v = "X" THEN {1, 2} ELSE {3, 4}]
        /\ \A v \in DOMAIN sim.subgraphs :
              /\ NumberOfEdges(sim.subgraphs[v]) = 1
              /\ sim.results[v].clique
              /\ DOMAIN sim.results[v].preds = {}
              /\ sim.results[v].map = [x \in sim.subgraphs[v] |-> One]
        /\ sim.err = NoError
        /\ sim.value = [x \in 1..4 |-> One]
        /\ sim.label = [x \in 1..4 |-> IF x <= 2 THEN "X" ELSE "Y"]

C23_Witness == FeatureCalled /\ PathABCD /\ sim.alg = Jaccard /\ sim.value = [x \in 1..4 |-> One]


(***************************************************************************)
(* SpecPairs: weighted_jaccard_coefficient(G, ebunch=pairs) on graphs with *)
(* the weights of the docstring example.  Weights are held in tenths (5    *)
(* for 0.5, 7 for 0.7, 10 for 1.0); the score is a quotient of sums of     *)
(* weights, so the unit cancels.  The nodes 0..3 of the example are the    *)
(* nodes 1..4 here.                                                        *)
(***************************************************************************)
TenthWeights == {5, 7, 10}

InitPairs ==
    /\ n \in 0..MaxAggNodes
    /\ \E D \in SUBSET {p \in EdgeSlots(n) : Cardinality(p) = 2} :
          /\ Cardinality(D) <= MaxEdges
          /\ edges \in [D -> TenthWeights]
    /\ attrs = [x \in 1..n |-> [f \in Features |-> NoAttr]]
    /\ wlog = [x \in 1..n |-> NoKey]
    /\ features = << >>
    /\ sim = NoSim
    /\ agg = NoAgg
    /\ kind = Graph
    /\ batch = NoBatch

\* list(weighted_jaccard_coefficient(G, ebunch=ebunch)): _apply_prediction
\* applies predict to every pair of the given ebunch
WeightedJaccardCoefficientCall(ebunch) ==
    /\ sim.op = "none"
    /\ sim' = [op |-> "weighted_jaccard_coefficient", ebunch |-> ebunch,
               preds |-> [p \in ebunch |->
                             PredictWeightedJaccard(NodeSet, PairU(p), PairV(p))]]
    /\ UNCHANGED <<n, edges, attrs, wlog, kind, features, agg, batch>>

NextPairs ==
    \E ebunch \in {e \in SUBSET AllPairs(NodeSet) : Cardinality(e) \in 1..2} :
        WeightedJaccardCoefficientCall(ebunch)

SpecPairs == InitPairs /\ [][NextPairs]_vars

\* the graph of the docstring example: 0-1 (0.5), 1-2 (0.7), 2-3 (1.0)
DocstringGraph ==
    /\ n = 4
    /\ edges = ({1, 2} :> 5) @@ ({2, 3} :> 7) @@ ({3, 4} :> 10)

\* C24: on the docstring's graph, weighted_jaccard_coefficient evaluated on
\* the pairs (0, 1) and (1, 2) yields 0.5 for (0, 1) and 0.7 / 1.7 for (1, 2)
C24_DocstringExample ==
    (sim.op = "weighted_jaccard_coefficient" /\ DocstringGraph
        /\ sim.ebunch = {{1, 2}, {2, 3}}) =>
        /\ sim.preds[{1, 2}] = Ok(<<1, 2>>)
        /\ sim.preds[{2, 3}] = Ok(<<7, 17>>)


(***************************************************************************)
(* The Base columns of the similarity table (checked under SpecAgg).       *)
(***************************************************************************)
\* C25: in the table returned by get_all_similarities, whatever feature
\* columns were merged in, every node with a baseline value has Base gain 0
\* and Base label "Base" (a row without a baseline value has neither)
C25_BaseGainZero ==
    TableBuilt =>
        /\ DOMAIN agg.base_gain = DOMAIN agg.base
        /\ DOMAIN agg.base_label = DOMAIN agg.base
        /\ \A x \in DOMAIN agg.base :
              /\ x \in agg.rows
              /\ agg.base_gain[x] = Zero
              /\ agg.base_label[x] = "Base"

\* a table with a baseline value other than 1, two merged feature columns and
\* a row that the merge added (a node without a baseline value)
C25_Witness ==
    /\ TableBuilt
    /\ Len(agg.target_features) = 2
    /\ \E x \in DOMAIN agg.base : agg.base[x] # One
    /\ agg.rows \ DOMAIN agg.base # {}


(***************************************************************************)
(* network_builder/base.py: NetworkBuilder.add_edges_proposals.            *)
(*                                                                         *)
(* The legislators are the nodes 1..n; batch.proposals is the mapping of   *)
(* proposals to author lists (a sequence of lists: the proposal ids play   *)
(* no part).  An author list may repeat an author, as authors_dict appends *)
(* one entry per row of the authors table, and may name the id n + 1,      *)
(* which is not a node.                                                    *)
(***************************************************************************)
MaxProposals == 2
MaxAuthors == 3

SeqsUpTo(S, k) == UNION {[1..m -> S] : m \in 0..k}

\* authors = [author for author in self.proposals[proposal] if author in self.g.nodes]
NodeAuthors(list) == SelectSeq(list, LAMBDA a : a \in NodeSet)

\* the body of the inner loop: add the edge with weight 1, or add 1 to the
\* weight of the edge that is there
AddCoauthorship(E, a, b) ==
    IF EdgeKey(a, b) \in DOMAIN E
    THEN [E EXCEPT ![EdgeKey(a, b)] = @ + 1]
    ELSE (EdgeKey(a, b) :> 1) @@ E

RECURSIVE AuthorPairsLoop(_, _, _, _)
\* for i in range(coauthors_len): for j in range(i + 1, coauthors_len)
AuthorPairsLoop(E, authors, i, j) ==
    IF i > Len(authors) THEN E
    ELSE IF j > Len(authors) THEN AuthorPairsLoop(E, authors, i + 1, i + 2)
    ELSE AuthorPairsLoop(AddCoauthorship(E, authors[i], authors[j]), authors, i, j + 1)

RECURSIVE ProposalsLoop(_, _, _)
\* for proposal in self.proposals; a proposal with fewer than two node
\* authors is skipped
ProposalsLoop(E, proposals, k) ==
    IF k > Len(proposals) THEN E
    ELSE LET authors == NodeAuthors(proposals[k])
         IN  ProposalsLoop(IF Len(authors) < 2 THEN E
                           ELSE AuthorPairsLoop(E, authors, 1, 2),
                           proposals, k + 1)

InitBuild ==
    /\ n \in 0..MaxNodes
    /\ edges = [p \in {} |-> 0]
    /\ \E ps \in SeqsUpTo(SeqsUpTo(1..(n + 1), MaxAuthors), MaxProposals) :
          batch = [pc |-> "nodes_added", proposals |-> ps]
    /\ attrs = [x \in 1..n |-> [f \in Features |-> NoAttr]]
    /\ wlog = [x \in 1..n |-> NoKey]
    /\ features = << >>
    /\ sim = NoSim
    /\ agg = NoAgg
    /\ kind = Graph

\* NetworkBuilder.add_edges_proposals()
AddEdgesProposals ==
    /\ batch.pc = "nodes_added"
    /\ edges' = ProposalsLoop(edges, batch.proposals, 1)
    /\ batch' = [batch EXCEPT !.pc = "edges_added"]
    /\ UNCHANGED <<n, attrs, wlog, kind, features, sim, agg>>

NextBuild == AddEdgesProposals

SpecBuild == InitBuild /\ [][NextBuild]_vars

\* the proposals authored by both a and b
JointProposals(a, b) ==
    {k \in 1..Len(batch.proposals) :
        \E i, j \in 1..Len(batch.proposals[k]) :
            batch.proposals[k][i] = a /\ batch.proposals[k][j] = b}

\* C26: the graph built by add_edges_proposals has no self-loop, an edge
\* {a, b} exactly when some proposal is authored by both a and b, and on each
\* edge the number of proposals authored by both as its weight
C26_SimpleCoauthorshipGraph ==
    (batch.pc = "edges_added") =>
        /\ \A e \in DOMAIN edges : Cardinality(e) = 2
        /\ \A a \in NodeSet, b \in NodeSet :
              a # b =>
                 /\ ({a, b} \in DOMAIN edges) <=> (JointProposals(a, b) # {})
                 /\ ({a, b} \in DOMAIN edges) =>
                       edges[{a, b}] = Cardinality(JointProposals(a, b))


\* every two distinct nodes of the graph are adjacent
AllPairsAdjacent == \A u \in NodeSet, v \in NodeSet : u # v => Adjacent(u, v)

\* C27: on every undirected graph without parallel edges, self-loops allowed,
\* is_clique holds exactly when every two distinct nodes are adjacent, so
\* avg_similarity takes the 1.0 short-circuit for those graphs only
C27_CliqueIffAllPairsAdjacent ==
    Called => (sim.clique <=> AllPairsAdjacent)


\* a float that is a number (not missing, not infinite) and > 0 / >= 0
Positive(v) == v[2] > 0 /\ v[1] > 0
NonNegative(v) == v[2] > 0 /\ v[1] >= 0

\* C28: every value that avg_similarity returned for the graph (the baseline)
\* or for a feature subgraph is strictly greater than 0; hence no baseline
\* value is 0, and every gain of a node with a baseline value is a number >= 0
C28_SimilarityValuesPositive ==
    TableBuilt =>
        /\ \A x \in DOMAIN agg.base : Positive(agg.base[x])
        /\ \A f \in DOMAIN agg.cols : \A x \in DOMAIN agg.cols[f].value :
              /\ Positive(agg.cols[f].value[x])
              /\ x \in DOMAIN agg.base => NonNegative(agg.cols[f].gain[x])

\* a table whose baseline holds an averaged score (not the clique value 1.0)
\* and in which some node has a gain > 0 and another one gain 0
C28_Witness ==
    /\ TableBuilt
    /\ \E x \in DOMAIN agg.base : agg.base[x] # One
    /\ \E f \in DOMAIN agg.cols :
          /\ \E x \in DOMAIN agg.cols[f].gain :
                x \in DOMAIN agg.base /\ Positive(agg.cols[f].gain[x])
          /\ \E y \in DOMAIN agg.cols[f].gain :
                y \in DOMAIN agg.base /\ agg.cols[f].gain[y] = Zero


(***************************************************************************)
(* The consolidation pass, __main__.py: consolidate_files and              *)
(* consolidate_files_per_feature.                                          *)
(*                                                                         *)
(* batch.jobs is the set of (algorithm, file) jobs whose per-graph files   *)
(* are on disk.  A csv table is the bag of its rows, a row being named by  *)
(* the per-graph file it came from: a function from sources to the number  *)
(* of copies.  batch.tables holds the consolidated files that exist:       *)
(*   <<"networks", "networks.csv">>        {path}/networks/networks.csv    *)
(*   <<"features", alg, "nodes.csv">>      {path}/features/{alg}/nodes.csv *)
(*   <<"features", alg, feature>>          {path}/features/{alg}/{feature} *)
(* The feature names of the model are not substrings of one another or of  *)
(* a graph name, so `feature in file_name` selects the files of that       *)
(* feature.                                                                *)
(***************************************************************************)
MaxPasses == 3

EmptyTable == [s \in {} |-> 0]

Copies(t, s) == IF s \in DOMAIN t THEN t[s] ELSE 0

\* pd.concat([a, b]): the rows of both
Concat2(a, b) == [s \in DOMAIN a \cup DOMAIN b |-> Copies(a, s) + Copies(b, s)]

RECURSIVE ConcatAll(_)
\* pd.concat(list of frames), for a non-empty list
ConcatAll(ts) ==
    IF ts = {} THEN EmptyTable
    ELSE LET t == CHOOSE u \in ts : TRUE IN Concat2(t, ConcatAll(ts \ {t}))

\* a per-graph file holds the rows of one job
PerGraph(source) == (source :> 1)

\* os.listdir(f"{path}/networks"): the per-graph files {name}_network.csv of
\* the graphs with a finished job, and networks.csv once a pass has written it
NetworksListing(b) ==
    {PerGraph(<<"networks", j[2]>>) : j \in b.jobs}
        \cup (IF <<"networks", "networks.csv">> \in DOMAIN b.tables
              THEN {b.tables[<<"networks", "networks.csv">>]} ELSE {})

\* os.listdir(f"{path}/features/{alg}/nodes")
NodesListing(b, alg) ==
    {PerGraph(<<"features", alg, "nodes", j[2]>>) : j \in {k \in b.jobs : k[1] = alg}}

\* the files of os.listdir(f"{path}/features/{alg}/network") with the feature
\* in their name
NetworkListing(b, alg, feature) ==
    {PerGraph(<<"features", alg, "network", j[2], feature>>) :
        j \in {k \in b.jobs : k[1] = alg}}

\* the files one pass writes when no pd.concat fails
PassTables(b) ==
    (<<"networks", "networks.csv">> :> ConcatAll(NetworksListing(b)))
    @@ [p \in {<<"features", BatchAlgorithms[i], "nodes.csv">> :
                  i \in 1..Len(BatchAlgorithms)} |-> ConcatAll(NodesListing(b, p[2]))]
    @@ [p \in {<<"features", BatchAlgorithms[i], f>> :
                  i \in 1..Len(BatchAlgorithms), f \in Features} |->
           ConcatAll(NetworkListing(b, p[2], p[3]))]

\* pd.concat([]) raises ValueError: a pass needs a per-graph file in every
\* directory it reads
PassError(b) ==
    IF \A i \in 1..Len(BatchAlgorithms) : \E j \in b.jobs : j[1] = BatchAlgorithms[i]
    THEN NoError ELSE ValueError

InitConsolidate ==
    /\ \E k \in 0..MaxFiles :
       \E J \in SUBSET ({BatchAlgorithms[i] : i \in 1..Len(BatchAlgorithms)} \X (1..k)) :
          /\ \A g \in 1..k : \E j \in J : j[2] = g
          /\ batch = [pc |-> "consolidate", jobs |-> J, passes |-> 0, err |-> NoError,
                      tables |-> [p \in {} |-> EmptyTable],
                      first |-> [p \in {} |-> EmptyTable]]
    /\ n = 0
    /\ edges = [p \in {} |-> 0]
    /\ attrs = [x \in {} |-> 0]
    /\ wlog = [x \in {} |-> 0]
    /\ features = <<"party", "state">>
    /\ sim = NoSim
    /\ agg = NoAgg
    /\ kind = Graph

\* consolidate_files(path, similarity_algorithms, target_features) on the
\* output directory as it is, completed
ConsolidateFiles ==
    /\ batch.pc = "consolidate"
    /\ batch.passes < MaxPasses
    /\ PassError(batch) = NoError
    /\ batch' = [batch EXCEPT !.passes = @ + 1,
                              !.tables = PassTables(batch),
                              !.first = IF batch.passes = 0 THEN PassTables(batch) ELSE @]
    /\ UNCHANGED <<n, edges, attrs, wlog, kind, features, sim, agg>>

\* consolidate_files on a directory in which some algorithm has no per-graph
\* file: networks.csv is written, then pd.concat([]) raises
ConsolidateFilesRaises ==
    /\ batch.pc = "consolidate"
    /\ batch.passes < MaxPasses
    /\ PassError(batch) # NoError
    /\ batch' = [batch EXCEPT !.passes = @ + 1, !.err = PassError(batch),
                              !.tables = IF NetworksListing(batch) = {} THEN @
                                         ELSE (<<"networks", "networks.csv">> :>
                                               ConcatAll(NetworksListing(batch))) @@ @]
    /\ UNCHANGED <<n, edges, attrs, wlog, kind, features, sim, agg>>

NextConsolidate == ConsolidateFiles \/ ConsolidateFilesRaises

SpecConsolidate == InitConsolidate /\ [][NextConsolidate]_vars

\* C29: a second (or later) pass over the same directory leaves the same
\* consolidated tables as the first one, and each consolidated table holds
\* each per-graph output once
C29_ConsolidationIdempotent ==
    (batch.passes >= 2 /\ batch.err = NoError) =>
        /\ batch.tables = batch.first
        /\ \A p \in DOMAIN batch.tables : \A s \in DOMAIN batch.tables[p] :
              batch.tables[p][s] = 1


(***************************************************************************)
(* NetworkFactory.create_networks, network_builder/base.py.                *)
(*                                                                         *)
(* batch.ids is the set of idLegislatura values of the congresspeople      *)
(* data.  A proposal is named by the year whose authors_dict entry holds   *)
(* it, so the proposals a network is built from are a set of years.        *)
(***************************************************************************)
\* the keys of authors_dict, network_builder/__main__.py: range(2000, 2024)
AuthorsDictYears == 2000..2023

election_year ==
    (57 :> 2022) @@ (56 :> 2018) @@ (55 :> 2014) @@ (54 :> 2010)
        @@ (53 :> 2006) @@ (52 :> 2002) @@ (51 :> 1998)

\* id_legislatura = (year - 1999) // 4 + 51
IdLegislatura(year) == ((year - 1999) \div 4) + 51

\* years = list(range(election_year[55] + 1, election_year[55] + 5)): the key
\* is the literal 55, whatever id_legislatura the loop is at
TermYears(id_legislatura) == (election_year[55] + 1)..(election_year[55] + 4)

InitTerms ==
    /\ \E ids \in SUBSET (DOMAIN election_year) :
          batch = [pc |-> "factory", ids |-> ids,
                   year_networks |-> [y \in {} |-> 0],
                   term_networks |-> [l \in {} |-> {}]]
    /\ n = 0
    /\ edges = [p \in {} |-> 0]
    /\ attrs = [x \in {} |-> 0]
    /\ wlog = [x \in {} |-> 0]
    /\ features = <<"party">>
    /\ sim = NoSim
    /\ agg = NoAgg
    /\ kind = Graph

\* create_networks(): one network per year of authors_dict, with the
\* congresspeople of IdLegislatura(year), and one network per legislature id,
\* from the proposals of TermYears
CreateNetworks ==
    /\ batch.pc = "factory"
    /\ TermYears(55) \subseteq AuthorsDictYears
    /\ batch' = [batch EXCEPT !.pc = "created",
                     !.year_networks = [y \in AuthorsDictYears |-> IdLegislatura(y)],
                     !.term_networks = [l \in batch.ids |-> TermYears(l)]]
    /\ UNCHANGED <<n, edges, attrs, wlog, kind, features, sim, agg>>

NextTerms == CreateNetworks

SpecTerms == InitTerms /\ [][NextTerms]_vars

\* C30: the term network of every legislature id L of the data is built from
\* the proposals of the years election_year[L]+1 .. election_year[L]+4, which
\* are the years that (year - 1999) // 4 + 51 assigns to L
C30_TermNetworkYears ==
    batch.pc = "created" =>
        \A l \in DOMAIN batch.term_networks :
            /\ batch.term_networks[l] = (election_year[l] + 1)..(election_year[l] + 4)
            /\ batch.term_networks[l] =
                  {y \in 1998..2027 : IdLegislatura(y) = l}

====
